---- MODULE Spec2Model ----
(***************************************************************************)
(* Mergington High School activities API (src/src/app.py).                 *)
(*                                                                         *)
(* The store is the single SQLite table `activity`.  Every request handler *)
(* opens its own Session.  The SELECT of a handler runs outside of any     *)
(* transaction (the sqlite3 driver opens one only in front of a write),    *)
(* and session.commit() flushes one `UPDATE activity SET participants = ?  *)
(* WHERE id = ?` and commits it.  A mutating handler is therefore two      *)
(* atomic steps, the read with its checks and the write, and the steps of  *)
(* requests served by different threads of the pool may interleave.        *)
(* init_db is the same shape: its SELECT, and, when that finds no row, the *)
(* INSERTs of the seed with their commit.  Processes started together on   *)
(* one database file interleave these two steps as well.                   *)
(***************************************************************************)
EXTENDS Integers, Sequences, FiniteSets, TLC

\* ---------------------------------------------------------------- bounds
\* Threads of the pool that serve requests at the same time.
NumWorkers == 2
\* Requests begun in one behaviour.
MaxRequests == 3
\* Process starts in one behaviour.
MaxStartups == 2

Workers == 1..NumWorkers

\* Request inputs: a seeded activity, a second seeded activity and a name
\* that matches no activity; a seeded participant and a new student.
ActivityNames == {"Chess Club", "Programming Class", "Drama Club"}
Emails == {"michael@mergington.edu", "new@mergington.edu"}

\* ---------------------------------------------------------------- helpers
Range(s) == {s[i] : i \in DOMAIN s}

\* Number of entries of s equal to e.
Count(s, e) == Cardinality({i \in DOMAIN s : s[i] = e})

NoDuplicates(s) == \A i, j \in DOMAIN s : i # j => s[i] # s[j]

\* ---------------------------------------------------------------- store
\* The rows init_db inserts into an empty table; the ids are the rowids
\* SQLite assigns to them in insertion order.
seed(first_id) ==
    << [id |-> first_id, name |-> "Chess Club",
        description |-> "Learn strategies and compete in chess tournaments",
        schedule |-> "Fridays, 3:30 PM - 5:00 PM", max_participants |-> 12,
        participants |-> <<"michael@mergington.edu", "daniel@mergington.edu">>],
       [id |-> first_id + 1, name |-> "Programming Class",
        description |-> "Learn programming fundamentals and build software projects",
        schedule |-> "Tuesdays and Thursdays, 3:30 PM - 4:30 PM", max_participants |-> 20,
        participants |-> <<"emma@mergington.edu", "sophia@mergington.edu">>],
       [id |-> first_id + 2, name |-> "Gym Class",
        description |-> "Physical education and sports activities",
        schedule |-> "Mondays, Wednesdays, Fridays, 2:00 PM - 3:00 PM", max_participants |-> 30,
        participants |-> <<"john@mergington.edu", "olivia@mergington.edu">>] >>

\* init_db's read: any_activity = select(Activity).first(), as a truth value.
any_activity(st) == st # <<>>

\* init_db's write: session.add of the three seed rows and session.commit();
\* the rows are appended to whatever the table holds at the commit.
init_db_seed(st) == st \o seed(Len(st) + 1)

\* select(Activity) without the where clause.
select_any(st, activity_name) == st

\* select(Activity).where(Activity.name == activity_name): the matching rows
\* in rowid order; .first() is the head of it, None when it is empty.
select_by_name(st, activity_name) ==
    SelectSeq(st, LAMBDA a : a.name = activity_name)

\* ---------------------------------------------------------------- responses
NoResponse == [status_code |-> 0]
NotFound == [status_code |-> 404, detail |-> "Activity not found"]
AlreadySignedUp == [status_code |-> 400, detail |-> "Student is already signed up"]
NotSignedUp == [status_code |-> 400, detail |-> "Student is not signed up for this activity"]
\* The answer to an exception that is no HTTPException: the session is left
\* without a commit.
InternalServerError == [status_code |-> 500, detail |-> "Internal Server Error"]
\* The f-strings of the success bodies, as their parts in order.
SignedUpMessage(email, activity_name) ==
    [status_code |-> 200, message |-> <<"Signed up ", email, " for ", activity_name>>]
UnregisteredMessage(email, activity_name) ==
    [status_code |-> 200, message |-> <<"Unregistered ", email, " from ", activity_name>>]

\* ---------------------------------------------------------------- signup
\* signup's checks with the membership test left out.
signup_checks_no_membership(rows, email) ==
    IF rows = <<>> THEN NotFound ELSE NoResponse

\* The HTTPException signup_for_activity raises on the rows it selected,
\* NoResponse when it raises none.
signup_checks(rows, email) ==
    IF rows = <<>> THEN NotFound
    ELSE IF email \in Range(Head(rows).participants) THEN AlreadySignedUp
    ELSE NoResponse

\* participants = list(activity.participants or []); participants.append(email)
signup_participants(participants, email) == Append(participants, email)

\* ---------------------------------------------------------------- unregister
\* The HTTPException unregister_from_activity raises, NoResponse when none.
unregister_checks(rows, email) ==
    IF rows = <<>> THEN NotFound
    ELSE IF email \notin Range(Head(rows).participants) THEN NotSignedUp
    ELSE NoResponse

\* participants.remove(email): raises ValueError, the list left as it was,
\* when no entry equals email; removes the first entry equal to email
\* otherwise.  raises is "" when nothing is raised.
list_remove(participants, email) ==
    IF email \notin Range(participants)
    THEN [raises |-> "ValueError", participants |-> participants]
    ELSE LET i == CHOOSE k \in DOMAIN participants :
                    /\ participants[k] = email
                    /\ \A j \in 1..(k - 1) : participants[j] # email
         IN [raises |-> "",
             participants |-> SubSeq(participants, 1, i - 1)
                                  \o SubSeq(participants, i + 1, Len(participants))]

\* ---------------------------------------------------------------- commit
\* An UPDATE appending the new entry to the stored list.
session_commit_append(st, activity) ==
    [i \in DOMAIN st |->
        IF st[i].id = activity.id /\ activity.participants # <<>>
        THEN [st[i] EXCEPT !.participants =
                  Append(@, activity.participants[Len(activity.participants)])]
        ELSE st[i]]

\* An UPDATE without its WHERE clause.
session_commit_all_rows(st, activity) ==
    [i \in DOMAIN st |-> [st[i] EXCEPT !.participants = activity.participants]]

\* session.add(activity); session.commit(): the flush writes the one changed
\* attribute, the whole participants list, to the row with the object's id.
session_commit(st, activity) ==
    [i \in DOMAIN st |->
        IF st[i].id = activity.id
        THEN [st[i] EXCEPT !.participants = activity.participants]
        ELSE st[i]]

\* ---------------------------------------------------------------- get
\* The dict comprehension of get_activities: keyed by name, a later row
\* with the same name replacing an earlier one.
activities_dict(st) ==
    [n \in {st[i].name : i \in DOMAIN st} |->
        LET last == CHOOSE i \in DOMAIN st :
                        /\ st[i].name = n
                        /\ \A j \in DOMAIN st : st[j].name = n => j <= i
        IN [description |-> st[last].description,
            schedule |-> st[last].schedule,
            max_participants |-> st[last].max_participants,
            participants |-> st[last].participants]]

\* ---------------------------------------------------------------- state
VARIABLES
    store,       \* the rows of table activity, in rowid order
    started,     \* a process has run on_startup and serves requests
    seeding,     \* starts that found the table empty and have yet to commit
    pc,          \* per worker: "idle", "signup_commit" or "unregister_commit"
    request,     \* per worker: the request it serves or served last
    activity,    \* per worker: the Activity object held by its session
    response,    \* per worker: the response of the request it served last
    nreq,        \* requests begun
    nstart       \* process starts

vars == <<store, started, seeding, pc, request, activity, response, nreq, nstart>>

NoRequest == [op |-> "none", activity_name |-> "", email |-> ""]
NoActivity == [id |-> 0, participants |-> <<>>]

\* A database file left by earlier runs: the seed after ten signups for
\* Chess Club, which fill it to max_participants.
RECURSIVE signup_all(_, _, _)
signup_all(st, activity_name, emails) ==
    IF emails = <<>> THEN st
    ELSE LET a == Head(select_by_name(st, activity_name))
         IN signup_all(
                session_commit(st, [a EXCEPT !.participants =
                                        signup_participants(@, Head(emails))]),
                activity_name, Tail(emails))

FullChessClub ==
    signup_all(seed(1), "Chess Club",
               <<"s01@mergington.edu", "s02@mergington.edu", "s03@mergington.edu",
                 "s04@mergington.edu", "s05@mergington.edu", "s06@mergington.edu",
                 "s07@mergington.edu", "s08@mergington.edu", "s09@mergington.edu",
                 "s10@mergington.edu">>)

\* The table is empty on the first run and holds what earlier runs left
\* otherwise.
Init ==
    /\ store \in {<<>>, FullChessClub}
    /\ started = FALSE
    /\ seeding = 0
    /\ pc = [w \in Workers |-> "idle"]
    /\ request = [w \in Workers |-> NoRequest]
    /\ activity = [w \in Workers |-> NoActivity]
    /\ response = [w \in Workers |-> NoResponse]
    /\ nreq = 0
    /\ nstart = 0

\* The pool hands a request to an idle thread; which one is immaterial, so
\* the model takes the lowest-numbered idle one.
Serves(w) == pc[w] = "idle" /\ \A v \in 1..(w - 1) : pc[v] # "idle"

\* No request is between its read and its commit.
Quiet == \A w \in Workers : pc[w] = "idle"

\* ---------------------------------------------------------------- actions
\* on_startup, up to the test of init_db: a process start reads the table;
\* if it finds a row init_db returns and the process serves requests.
Startup ==
    /\ nstart < MaxStartups
    /\ nstart' = nstart + 1
    /\ IF any_activity(store)
       THEN started' = TRUE /\ UNCHANGED seeding
       ELSE seeding' = seeding + 1 /\ UNCHANGED started
    /\ UNCHANGED <<store, pc, request, activity, response, nreq>>

\* init_db's seed and commit, of a start that found the table empty; the
\* process then serves requests.
StartupCommit ==
    /\ seeding > 0
    /\ store' = init_db_seed(store)
    /\ seeding' = seeding - 1
    /\ started' = TRUE
    /\ UNCHANGED <<pc, request, activity, response, nreq, nstart>>

\* GET /activities
GetActivities(w) ==
    /\ started /\ Serves(w) /\ nreq < MaxRequests
    /\ request' = [request EXCEPT ![w] = [op |-> "get", activity_name |-> "", email |-> ""]]
    /\ response' = [response EXCEPT ![w] = [status_code |-> 200, body |-> activities_dict(store)]]
    /\ nreq' = nreq + 1
    /\ UNCHANGED <<store, started, seeding, pc, activity, nstart>>

\* POST /activities/{activity_name}/signup, up to the commit: the select,
\* the two checks and the new list on the session's object.
Signup(w, activity_name, email) ==
    /\ started /\ Serves(w) /\ nreq < MaxRequests
    /\ nreq' = nreq + 1
    /\ request' = [request EXCEPT ![w] =
                      [op |-> "signup", activity_name |-> activity_name, email |-> email]]
    /\ LET rows == select_by_name(store, activity_name)
           exc == signup_checks(rows, email)
       IN IF exc # NoResponse
          THEN /\ response' = [response EXCEPT ![w] = exc]
               /\ UNCHANGED <<pc, activity>>
          ELSE /\ response' = [response EXCEPT ![w] = NoResponse]
               /\ pc' = [pc EXCEPT ![w] = "signup_commit"]
               /\ activity' = [activity EXCEPT ![w] =
                      [id |-> Head(rows).id,
                       participants |-> signup_participants(Head(rows).participants, email)]]
    /\ UNCHANGED <<store, started, seeding, nstart>>

\* session.add(activity); session.commit(); return the message.
SignupCommit(w) ==
    /\ pc[w] = "signup_commit"
    /\ store' = session_commit(store, activity[w])
    /\ response' = [response EXCEPT ![w] =
                       SignedUpMessage(request[w].email, request[w].activity_name)]
    /\ pc' = [pc EXCEPT ![w] = "idle"]
    /\ activity' = [activity EXCEPT ![w] = NoActivity]
    /\ UNCHANGED <<started, seeding, request, nreq, nstart>>

\* DELETE /activities/{activity_name}/unregister, up to the commit.
Unregister(w, activity_name, email) ==
    /\ started /\ Serves(w) /\ nreq < MaxRequests
    /\ nreq' = nreq + 1
    /\ request' = [request EXCEPT ![w] =
                      [op |-> "unregister", activity_name |-> activity_name, email |-> email]]
    /\ LET rows == select_by_name(store, activity_name)
           exc == unregister_checks(rows, email)
       IN IF exc # NoResponse
          THEN /\ response' = [response EXCEPT ![w] = exc]
               /\ UNCHANGED <<pc, activity>>
          ELSE LET removed == list_remove(Head(rows).participants, email)
               IN IF removed.raises # ""
                  THEN /\ response' = [response EXCEPT ![w] = InternalServerError]
                       /\ UNCHANGED <<pc, activity>>
                  ELSE /\ response' = [response EXCEPT ![w] = NoResponse]
                       /\ pc' = [pc EXCEPT ![w] = "unregister_commit"]
                       /\ activity' = [activity EXCEPT ![w] =
                              [id |-> Head(rows).id,
                               participants |-> removed.participants]]
    /\ UNCHANGED <<store, started, seeding, nstart>>

UnregisterCommit(w) ==
    /\ pc[w] = "unregister_commit"
    /\ store' = session_commit(store, activity[w])
    /\ response' = [response EXCEPT ![w] =
                       UnregisteredMessage(request[w].email, request[w].activity_name)]
    /\ pc' = [pc EXCEPT ![w] = "idle"]
    /\ activity' = [activity EXCEPT ![w] = NoActivity]
    /\ UNCHANGED <<started, seeding, request, nreq, nstart>>

Next ==
    \/ Startup
    \/ StartupCommit
    \/ \E w \in Workers : GetActivities(w)
    \/ \E w \in Workers, n \in ActivityNames, e \in Emails : Signup(w, n, e)
    \/ \E w \in Workers : SignupCommit(w)
    \/ \E w \in Workers, n \in ActivityNames, e \in Emails : Unregister(w, n, e)
    \/ \E w \in Workers : UnregisterCommit(w)

Spec == Init /\ [][Next]_vars

\* The same handlers with the requests served one after another: a request
\* begins only when no other is between its read and its commit.
SeqGetActivities(w) == Quiet /\ GetActivities(w)
SeqSignup(w, n, e) == Quiet /\ Signup(w, n, e)
SeqUnregister(w, n, e) == Quiet /\ Unregister(w, n, e)

NextSeq ==
    \/ Startup
    \/ StartupCommit
    \/ \E w \in Workers : SeqGetActivities(w)
    \/ \E w \in Workers, n \in ActivityNames, e \in Emails : SeqSignup(w, n, e)
    \/ \E w \in Workers : SignupCommit(w)
    \/ \E w \in Workers, n \in ActivityNames, e \in Emails : SeqUnregister(w, n, e)
    \/ \E w \in Workers : UnregisterCommit(w)

SeqSpec == Init /\ [][NextSeq]_vars

\* ---------------------------------------------------------------- properties
Exists(st, n) == \E i \in DOMAIN st : st[i].name = n

\* The table holds one row per name.
UniqueNames(st) == \A i, j \in DOMAIN st : st[i].name = st[j].name => i = j

\* The participants of the first row named n, the row the handlers select.
ParticipantsOf(st, n) ==
    st[CHOOSE i \in DOMAIN st :
           st[i].name = n /\ \A j \in 1..(i - 1) : st[j].name # n].participants

\* This step begins a request, and worker w serves it.
Begins(w) == Serves(w) /\ nreq' = nreq + 1

\* This step is the commit of the request worker w serves.
Commits(w, op) == pc[w] # "idle" /\ pc'[w] = "idle" /\ request[w].op = op

IsSignup(r, n, e) == r = [op |-> "signup", activity_name |-> n, email |-> e]
IsUnregister(r, n, e) == r = [op |-> "unregister", activity_name |-> n, email |-> e]

\* C1: in every reachable state of the store, with the requests interleaved
\* in any way, no email appears more than once in the participants of an
\* activity.
C1_NoDuplicateParticipants ==
    \A i \in DOMAIN store : NoDuplicates(store[i].participants)

\* A signup and an unregister of different workers have both succeeded.
C1_Witness ==
    \E w, v \in Workers :
        /\ request[w].op = "signup" /\ response[w].status_code = 200
        /\ request[v].op = "unregister" /\ response[v].status_code = 200
        /\ Count(ParticipantsOf(store, "Chess Club"), "new@mergington.edu") = 1

\* What C2 says of one step, for every activity a named n: a signup of an e
\* not in a's participants goes on to its commit whatever the participant
\* count and max_participants are; the commit leaves a's participants as
\* the previous list with e appended, e being in it exactly once, and the
\* response is 200 with the message "Signed up e for n".
C2_Step ==
    \A w \in Workers, n \in ActivityNames, e \in Emails, a \in DOMAIN store :
        store[a].name = n =>
        /\ (/\ Begins(w) /\ IsSignup(request'[w], n, e)
            /\ e \notin Range(store[a].participants))
           => pc'[w] = "signup_commit"
        /\ (Commits(w, "signup") /\ IsSignup(request[w], n, e))
           => /\ store'[a].participants = Append(store[a].participants, e)
              /\ Count(store'[a].participants, e) = 1
              /\ response'[w].status_code = 200
              /\ response'[w].message = <<"Signed up ", e, " for ", n>>

\* C2: served one after another, signup(A, e) for every existing activity A
\* and every e not in A's participants succeeds, capacity unchecked, and
\* leaves A's participants as the previous list with e appended.
C2_SignupAppends == [][C2_Step]_vars

\* C2 on the stores with one row per name.
C2_OnUniqueNames == [][UniqueNames(store) => C2_Step]_vars

\* What C3 says of one step, for every activity a named n: a signup of an e
\* that a's participants hold answers 400 "Student is already signed up"
\* and changes nothing in the store; a committed signup leaves e in the
\* list the next signup reads.
C3_Step ==
    \A w \in Workers, n \in ActivityNames, e \in Emails, a \in DOMAIN store :
        store[a].name = n =>
        /\ (/\ Begins(w) /\ IsSignup(request'[w], n, e)
            /\ e \in Range(store[a].participants))
           => /\ response'[w].status_code = 400
              /\ response'[w].detail = "Student is already signed up"
              /\ pc'[w] = "idle"
              /\ store' = store
        /\ (Commits(w, "signup") /\ IsSignup(request[w], n, e))
           => e \in Range(ParticipantsOf(store', n))

\* C3: signup(A, e) on an existing activity A whose participants hold e
\* fails with 400 and leaves the store as it was.
C3_DuplicateSignupRejected == [][C3_Step]_vars

\* C3 on the stores with one row per name.
C3_OnUniqueNames == [][UniqueNames(store) => C3_Step]_vars

\* What C4 says of one step, for every activity a named n: an unregister of
\* an e that a's participants hold goes on to its commit, which removes
\* exactly one entry equal to e from a's participants and keeps the others
\* in their order, and answers 200.
C4_Step ==
    \A w \in Workers, n \in ActivityNames, e \in Emails, a \in DOMAIN store :
        store[a].name = n =>
        /\ (/\ Begins(w) /\ IsUnregister(request'[w], n, e)
            /\ e \in Range(store[a].participants))
           => pc'[w] = "unregister_commit"
        /\ (Commits(w, "unregister") /\ IsUnregister(request[w], n, e))
           => LET old == store[a].participants
                  new == store'[a].participants
              IN /\ Len(new) = Len(old) - 1
                 /\ \E i \in DOMAIN old :
                        /\ old[i] = e
                        /\ new = SubSeq(old, 1, i - 1) \o SubSeq(old, i + 1, Len(old))
                 /\ response'[w].status_code = 200

\* C4: served one after another, unregister(A, e) for every existing
\* activity A whose participants hold e succeeds and removes exactly one
\* entry equal to e, the others keeping their order.
C4_UnregisterRemovesOne == [][C4_Step]_vars

\* C4 on the stores with one row per name.
C4_OnUniqueNames == [][UniqueNames(store) => C4_Step]_vars

\* What C5 says of one step, for every activity a named n: an unregister of
\* an e that a's participants do not hold answers 400 "Student is not
\* signed up for this activity" and changes nothing in the store.
C5_Step ==
    \A w \in Workers, n \in ActivityNames, e \in Emails, a \in DOMAIN store :
        (/\ store[a].name = n
         /\ Begins(w) /\ IsUnregister(request'[w], n, e)
         /\ e \notin Range(store[a].participants))
        => /\ response'[w].status_code = 400
           /\ response'[w].detail = "Student is not signed up for this activity"
           /\ pc'[w] = "idle"
           /\ store' = store

\* C5: unregister(A, e) on an existing activity A whose participants do not
\* hold e fails with 400 and leaves the store as it was.
C5_UnregisterAbsentRejected == [][C5_Step]_vars

\* C5 on the stores with one row per name.
C5_OnUniqueNames == [][UniqueNames(store) => C5_Step]_vars

\* C6: signup and unregister on a name that matches no activity answer 404
\* "Activity not found" for every email and change nothing in the store.
C6_UnknownActivityNotFound ==
    [][\A w \in Workers, n \in ActivityNames, e \in Emails :
        (/\ Begins(w)
         /\ IsSignup(request'[w], n, e) \/ IsUnregister(request'[w], n, e)
         /\ ~Exists(store, n))
        => /\ response'[w].status_code = 404
           /\ response'[w].detail = "Activity not found"
           /\ pc'[w] = "idle"
           /\ store' = store]_vars

\* An unregister on the unknown name was refused with 404 for an email that
\* is a participant elsewhere.
C6_Witness ==
    /\ IsUnregister(request[1], "Drama Club", "michael@mergington.edu")
    /\ response[1].status_code = 404
    /\ ~Exists(store, "Drama Club")

\* C7: after any number of starts, interleaved with any requests, a served
\* store holds exactly three activities, "Chess Club", "Programming Class"
\* and "Gym Class", with pairwise distinct names.
C7_SeedingIdempotent ==
    started =>
        /\ Len(store) = 3
        /\ {store[i].name : i \in DOMAIN store} =
               {"Chess Club", "Programming Class", "Gym Class"}
        /\ UniqueNames(store)

\* The other request of the race: worker v has answered 200 to the signup
\* of e for n, and e is in the list of the row the requests select.
Admitted(v, n, e) ==
    /\ pc[v] = "idle"
    /\ IsSignup(request[v], n, e)
    /\ response[v].status_code = 200
    /\ e \in Range(ParticipantsOf(store, n))

\* C8, as stated: when two signups of the same e for the same A have both
\* read before either wrote, the second write leaves e twice in A's
\* participants.
C8_RaceAdmitsDuplicate ==
    [][\A w, v \in Workers, n \in ActivityNames, e \in Emails :
        (/\ w # v /\ Admitted(v, n, e)
         /\ Commits(w, "signup") /\ IsSignup(request[w], n, e))
        => Count(ParticipantsOf(store', n), e) = 2]_vars

\* C8, amended: when two signups of the same e for the same A have both
\* read before either wrote, both pass the membership test and both answer
\* 200, and the second write, of the whole list the request read with e
\* appended, leaves e exactly once in the participants of the row both
\* selected.
C8_RaceWritesSameList ==
    [][\A w, v \in Workers, n \in ActivityNames, e \in Emails :
        (/\ w # v /\ Admitted(v, n, e)
         /\ Commits(w, "signup") /\ IsSignup(request[w], n, e))
        => /\ Count(ParticipantsOf(store', n), e) = 1
           /\ response'[w].status_code = 200
           /\ response'[v].status_code = 200]_vars

\* The only two requests were signups of the new student for Chess Club and
\* both have answered 200.
C8_Witness ==
    /\ nreq = 2
    /\ \A w \in {1, 2} :
        /\ pc[w] = "idle"
        /\ IsSignup(request[w], "Chess Club", "new@mergington.edu")
        /\ response[w].status_code = 200

\* C9: when a signup of e1 for A commits while another request has answered
\* 200 to the signup of a different e2 for A and e2 is in the stored list,
\* e1 and e2 are each exactly once in A's participants afterwards.
C9_ConcurrentSignupsBothKept ==
    [][\A w, v \in Workers, n \in ActivityNames, e1, e2 \in Emails :
        (/\ w # v /\ e1 # e2 /\ Admitted(v, n, e2)
         /\ Commits(w, "signup") /\ IsSignup(request[w], n, e1))
        => /\ response'[w].status_code = 200
           /\ Count(ParticipantsOf(store', n), e1) = 1
           /\ Count(ParticipantsOf(store', n), e2) = 1]_vars

\* The step belongs to a request, not to a process start.
RequestStep == nstart' = nstart /\ seeding' = seeding

\* C10: once seeded, no step of a request adds or deletes an activity or
\* changes a name, description, schedule, max_participants or id; a step
\* that changes a participants list is the commit of a signup or unregister
\* and changes the list of one activity, which has the name the request
\* gives; get_activities and the reads of the other requests change
\* nothing.
C10_Frame ==
    [][(store # <<>> /\ RequestStep) =>
        /\ DOMAIN store' = DOMAIN store
        /\ \A i \in DOMAIN store :
            /\ [store'[i] EXCEPT !.participants = <<>>] =
                   [store[i] EXCEPT !.participants = <<>>]
            /\ store'[i].participants # store[i].participants
               => /\ \E w \in Workers :
                        /\ Commits(w, "signup") \/ Commits(w, "unregister")
                        /\ request[w].activity_name = store[i].name
                  /\ \A j \in DOMAIN store :
                        store'[j].participants # store[j].participants => j = i
        /\ (\E w \in Workers : Begins(w)) => store' = store]_vars

\* A get_activities served between the read and the commit of a signup
\* answered with the list as it was, and the signup then changed that one
\* list.
C10_Witness ==
    /\ request[2].op = "get" /\ response[2].status_code = 200
    /\ IsSignup(request[1], "Programming Class", "new@mergington.edu")
    /\ response[1].status_code = 200
    /\ response[2].body["Programming Class"].participants
           # ParticipantsOf(store, "Programming Class")
    /\ response[2].body["Gym Class"].participants = ParticipantsOf(store, "Gym Class")

====
